---- MODULE Spec2Model ----
(***************************************************************************)
(* A model of bibtex_to_mods_app.py: the conversion of uploaded BibTeX     *)
(* files into MODS XML documents.                                          *)
(*                                                                         *)
(* A Python str is a sequence of one-character strings, so that replace,   *)
(* split, strip and join are computed as Python computes them.  An         *)
(* ElementTree element is a record [tag, attrib, text, children]; attrib   *)
(* is the sequence of <<name, value>> pairs in construction order.  A      *)
(* BibTeX entry (a dict) is a function whose DOMAIN is the set of keys the *)
(* entry holds: the code reads it only through `in`, [], get and pop, so   *)
(* the insertion order of the dict is not part of the state.               *)
(***************************************************************************)
EXTENDS Integers, Sequences, FiniteSets, TLC

\* ------------------------------------------------------------------------
\* Bounds of the model
\* ------------------------------------------------------------------------
MaxFiles == 2
MaxEntries == 2
MaxClock == 2
MaxUuid == 2
MaxPagesLen == 5
MaxAuthors == 2

\* ------------------------------------------------------------------------
\* Python values
\* ------------------------------------------------------------------------
\* None and "" are both falsy and the code only ever tests the result of
\* entry.get(k) for truth (add_text, `or`), so get's None is the empty str.
None == <<>>

Truthy(text) == text # <<>>

\* entry.get(key) and entry.get(key, default)
Get(entry, key) == IF key \in DOMAIN entry THEN entry[key] ELSE None

\* str.replace(old, new) for one-character old and new
RECURSIVE ReplaceChar(_, _, _)
ReplaceChar(s, old, new) ==
    IF s = <<>> THEN <<>>
    ELSE <<IF Head(s) = old THEN new ELSE Head(s)>> \o ReplaceChar(Tail(s), old, new)

\* str.replace("--", "-"): left to right, occurrences do not overlap
RECURSIVE ReplaceDashDash(_)
ReplaceDashDash(s) ==
    IF Len(s) >= 2 /\ s[1] = "-" /\ s[2] = "-"
    THEN <<"-">> \o ReplaceDashDash(SubSeq(s, 3, Len(s)))
    ELSE IF s = <<>> THEN <<>>
    ELSE <<Head(s)>> \o ReplaceDashDash(Tail(s))

\* str.split(sep) for a one-character sep: every occurrence splits, empty
\* pieces are kept, and the result always has at least one piece.
RECURSIVE SplitFrom(_, _, _)
SplitFrom(s, sep, piece) ==
    IF s = <<>> THEN <<piece>>
    ELSE IF Head(s) = sep THEN <<piece>> \o SplitFrom(Tail(s), sep, <<>>)
    ELSE SplitFrom(Tail(s), sep, Append(piece, Head(s)))

Split(s, sep) == SplitFrom(s, sep, <<>>)

\* str.strip(): the whitespace of the model is the blank
RECURSIVE LStrip(_)
LStrip(s) == IF s # <<>> /\ Head(s) = " " THEN LStrip(Tail(s)) ELSE s

RECURSIVE RStrip(_)
RStrip(s) ==
    IF s # <<>> /\ s[Len(s)] = " " THEN RStrip(SubSeq(s, 1, Len(s) - 1)) ELSE s

Strip(s) == RStrip(LStrip(s))

\* sep.join(parts)
RECURSIVE Join(_, _)
Join(sep, parts) ==
    IF parts = <<>> THEN <<>>
    ELSE IF Len(parts) = 1 THEN parts[1]
    ELSE parts[1] \o sep \o Join(sep, Tail(parts))

RECURSIVE Flatten(_)
Flatten(seqs) == IF seqs = <<>> THEN <<>> ELSE Head(seqs) \o Flatten(Tail(seqs))

\* ------------------------------------------------------------------------
\* XML helpers
\* ------------------------------------------------------------------------
MODS_NS == "http://www.loc.gov/mods/v3"

\* f"{{{MODS_NS}}}{tag}"
QName(tag) == <<MODS_NS, tag>>

\* ET.Element / ET.SubElement: a fresh element has no text and no children
Element(tag, attrib, children) ==
    [tag |-> QName(tag), attrib |-> attrib, text |-> None, children |-> children]

\* add_text(parent, tag, text, **attrib), on the children of parent
add_text(children, tag, text, attrib) ==
    IF Truthy(text)
    THEN Append(children,
                [tag |-> QName(tag), attrib |-> attrib, text |-> text,
                 children |-> <<>>])
    ELSE children

\* ------------------------------------------------------------------------
\* String literals of the source
\* ------------------------------------------------------------------------
STR_aut == <<"a", "u", "t">>
STR_author == <<"a", "u", "t", "h", "o", "r">>
STR_text == <<"t", "e", "x", "t">>
STR_source == <<"s", "t", "r", "e", "a", "m", "l", "i", "t", "-",
                "c", "o", "n", "v", "e", "r", "t", "e", "r">>

\* ------------------------------------------------------------------------
\* Authors
\* ------------------------------------------------------------------------
\* What the parser's author customization leaves in an entry's author list:
\* an object with first_names and last_names (token lists), or a plain str.
Person(first, last) ==
    [kind |-> "person", first_names |-> first, last_names |-> last, text |-> <<>>]

RawName(text) ==
    [kind |-> "raw", first_names |-> <<>>, last_names |-> <<>>, text |-> text]

\* split_name(person): the attribute access raises AttributeError on a str
split_name(person) ==
    IF person.kind = "person"
    THEN [raised |-> FALSE,
          given  |-> Join(<<" ">>, person.first_names),
          family |-> Join(<<" ">>, person.last_names)]
    ELSE [raised |-> TRUE, given |-> <<>>, family |-> <<>>]

\* ------------------------------------------------------------------------
\* One BibTeX entry -> one <mods>: the groups of entry_to_mods, in code order
\* ------------------------------------------------------------------------
TitleGroup(entry) ==
    IF "title" \in DOMAIN entry
    THEN <<Element("titleInfo", <<>>, add_text(<<>>, "title", entry["title"], <<>>))>>
    ELSE <<>>

RoleElement ==
    Element("role", <<>>,
        add_text(
            add_text(<<>>, "roleTerm", STR_aut,
                     <<<<"authority", "marcrelator">>, <<"type", "code">>>>),
            "roleTerm", STR_author, <<<<"type", "text">>>>))

NameElement(given, family) ==
    Element("name", <<<<"type", "personal">>>>,
        Append(
            add_text(
                add_text(<<>>, "namePart", given, <<<<"type", "given">>>>),
                "namePart", family, <<<<"type", "family">>>>),
            RoleElement))

AuthorList(entry) ==
    IF "author_list" \in DOMAIN entry THEN entry["author_list"] ELSE <<>>

NamesRaise(entry) ==
    \E k \in 1..Len(AuthorList(entry)) : split_name(AuthorList(entry)[k]).raised

NameGroup(entry) ==
    [k \in 1..Len(AuthorList(entry)) |->
        LET gf == split_name(AuthorList(entry)[k])
        IN  NameElement(gf.given, gf.family)]

Lang(entry) ==
    IF Truthy(Get(entry, "language")) THEN Get(entry, "language")
    ELSE Get(entry, "langid")

LanguageGroup(entry) ==
    IF Truthy(Lang(entry))
    THEN <<Element("language", <<>>,
             add_text(<<>>, "languageTerm", Lang(entry),
                      <<<<"authority", "iso639-2b">>, <<"type", "code">>>>))>>
    ELSE <<>>

Keywords(entry) == Split(ReplaceChar(Get(entry, "keywords"), ";", ","), ",")

SubjectGroup(entry) ==
    Flatten([k \in 1..Len(Keywords(entry)) |->
        LET kw == Keywords(entry)[k]
        IN  IF Truthy(Strip(kw))
            THEN <<Element("subject", <<>>, add_text(<<>>, "topic", Strip(kw), <<>>))>>
            ELSE <<>>])

\* A faulty variant: the identifiers taken in another order
IdentifierTypesIsbnFirst == <<"isbn", "doi", "issn", "hdl", "isi">>

IdentifierTypes == <<"doi", "isbn", "issn", "hdl", "isi">>

RECURSIVE IdentifiersFrom(_, _, _)
IdentifiersFrom(entry, types, children) ==
    IF types = <<>> THEN children
    ELSE IdentifiersFrom(entry, Tail(types),
            IF Head(types) \in DOMAIN entry
            THEN add_text(children, "identifier", entry[Head(types)],
                          <<<<"type", Head(types)>>>>)
            ELSE children)

IdentifierGroup(entry) == IdentifiersFrom(entry, IdentifierTypes, <<>>)

AbstractGroup(entry) == add_text(<<>>, "abstract", Get(entry, "abstract"), <<>>)

OriginGroup(entry) ==
    IF "year" \in DOMAIN entry
    THEN <<Element("originInfo", <<>>, add_text(<<>>, "dateIssued", entry["year"], <<>>))>>
    ELSE <<>>

\* A faulty variant: booktitle wins over journal
host_title_booktitle_first(entry) ==
    IF Truthy(Get(entry, "booktitle")) THEN Get(entry, "booktitle")
    ELSE IF Truthy(Get(entry, "journal")) THEN Get(entry, "journal")
    ELSE Get(entry, "publisher")

\* host_title = entry.get("journal") or entry.get("booktitle") or entry.get("publisher")
host_title(entry) ==
    IF Truthy(Get(entry, "journal")) THEN Get(entry, "journal")
    ELSE IF Truthy(Get(entry, "booktitle")) THEN Get(entry, "booktitle")
    ELSE Get(entry, "publisher")

\* start, *end = entry["pages"].replace("--", "-").split("-")
PageParts(pages) == Split(ReplaceDashDash(pages), "-")

PageStart(pages) == PageParts(pages)[1]

\* end[0] if end else start
PageEnd(pages) ==
    IF Len(PageParts(pages)) > 1 THEN PageParts(pages)[2] ELSE PageStart(pages)

ExtentGroup(entry) ==
    IF "pages" \in DOMAIN entry
    THEN <<Element("extent", <<<<"unit", "page">>>>,
             add_text(
                 add_text(<<>>, "start", PageStart(entry["pages"]), <<>>),
                 "end", PageEnd(entry["pages"]), <<>>))>>
    ELSE <<>>

PartElement(entry) ==
    Element("part", <<>>,
        add_text(
            add_text(
                add_text(<<>>, "detail", Get(entry, "volume"), <<<<"type", "volume">>>>),
                "detail", Get(entry, "number"), <<<<"type", "issue">>>>)
            \o ExtentGroup(entry),
            "date", Get(entry, "year"), <<>>))

HostGroup(entry) ==
    IF Truthy(host_title(entry))
    THEN <<Element("relatedItem", <<<<"type", "host">>>>,
             Append(
                 (IF "issn" \in DOMAIN entry
                  THEN add_text(
                         <<Element("titleInfo", <<>>,
                             add_text(<<>>, "title", host_title(entry), <<>>))>>,
                         "identifier", entry["issn"], <<<<"type", "issn">>>>)
                  ELSE <<Element("titleInfo", <<>>,
                             add_text(<<>>, "title", host_title(entry), <<>>))>>),
                 PartElement(entry)))>>
    ELSE <<>>

NoteGroup(entry) ==
    add_text(<<>>, "note", Get(entry, "status"), <<<<"type", "publicationStatus">>>>)

LocationGroup(entry) ==
    IF "url" \in DOMAIN entry
    THEN <<Element("location", <<>>, add_text(<<>>, "url", entry["url"], <<>>))>>
    ELSE <<>>

\* The decimal digits of a natural number: the text of a clock reading
\* (datetime.isoformat) and of a drawn identifier (str(uuid)).
DigitChars == <<"0", "1", "2", "3", "4", "5", "6", "7", "8", "9">>

RECURSIVE Digits(_)
Digits(n) ==
    IF n < 10 THEN <<DigitChars[n + 1]>>
    ELSE Append(Digits(n \div 10), DigitChars[(n % 10) + 1])

\* now = datetime.utcnow().isoformat() + "Z", for the clock reading t
IsoNow(t) == Append(Digits(t), "Z")

\* A faulty variant: the clock is read again for the change date
RecordInfoTwoReadings(t, u) ==
    Element("recordInfo", <<>>,
        add_text(
            add_text(
                add_text(
                    add_text(<<>>, "recordContentSource", STR_source, <<>>),
                    "recordCreationDate", IsoNow(t), <<<<"encoding", "iso8601">>>>),
                "recordChangeDate", IsoNow(t + 1), <<<<"encoding", "iso8601">>>>),
            "recordIdentifier", Digits(u), <<>>))

\* recordInfo: one reading of the clock serves both dates
RecordInfo(t, u) ==
    Element("recordInfo", <<>>,
        add_text(
            add_text(
                add_text(
                    add_text(<<>>, "recordContentSource", STR_source, <<>>),
                    "recordCreationDate", IsoNow(t), <<<<"encoding", "iso8601">>>>),
                "recordChangeDate", IsoNow(t), <<<<"encoding", "iso8601">>>>),
            "recordIdentifier", Digits(u), <<>>))

TypeOfResourceGroup == add_text(<<>>, "typeOfResource", STR_text, <<>>)

\* The children of <mods>, in the order the groups are appended
ModsChildren(entry, t, u) ==
    TitleGroup(entry) \o NameGroup(entry) \o LanguageGroup(entry)
    \o SubjectGroup(entry) \o IdentifierGroup(entry) \o AbstractGroup(entry)
    \o OriginGroup(entry) \o HostGroup(entry) \o NoteGroup(entry)
    \o LocationGroup(entry) \o <<RecordInfo(t, u)>> \o TypeOfResourceGroup

\* entry_to_mods(entry), reading the clock as t and drawing the uuid u; the
\* AttributeError of split_name leaves the function before anything returns.
entry_to_mods(entry, t, u) ==
    IF NamesRaise(entry)
    THEN [raised |-> TRUE, mods |-> Element("mods", <<<<"version", "3.3">>>>, <<>>)]
    ELSE [raised |-> FALSE,
          mods |-> Element("mods", <<<<"version", "3.3">>>>, ModsChildren(entry, t, u))]

\* ------------------------------------------------------------------------
\* Serialization: prettify(elem)
\* ------------------------------------------------------------------------
\* The text is a sequence of tokens: the lines toprettyxml writes, each
\* followed by the newline token.  ET.tostring declares the MODS namespace
\* on the root (registered as the default namespace) and writes every tag
\* by its local name.
NL == [kind |-> "newline", indent |-> 0, tag |-> "", attrib |-> <<>>, text |-> <<>>]

Line(kind, indent, tag, attrib, text) ==
    [kind |-> kind, indent |-> indent, tag |-> tag, attrib |-> attrib, text |-> text]

XmlDecl == Line("decl", 0, "xml", <<<<"version", "1.0">>>>, <<>>)

RECURSIVE Lines(_, _)
Lines(el, depth) ==
    LET attrib == IF depth = 0 THEN <<<<"xmlns", el.tag[1]>>>> \o el.attrib
                  ELSE el.attrib
    IN  IF el.children # <<>>
        THEN <<Line("open", depth, el.tag[2], attrib, <<>>), NL>>
             \o Flatten([k \in 1..Len(el.children) |-> Lines(el.children[k], depth + 1)])
             \o <<Line("close", depth, el.tag[2], <<>>, <<>>), NL>>
        ELSE IF Truthy(el.text)
        THEN <<Line("leaf", depth, el.tag[2], attrib, el.text), NL>>
        ELSE <<Line("empty", depth, el.tag[2], attrib, <<>>), NL>>

prettify(elem) == <<XmlDecl, NL>> \o Lines(elem, 0)

\* ------------------------------------------------------------------------
\* Uploaded files
\* ------------------------------------------------------------------------
\* A file is modelled by what reading it yields: bytes that are not UTF-8,
\* text the BibTeX parser rejects, or the entries the parser returns (with
\* the author customization applied: key "author" holds the author list).
BadUtf8 == [kind |-> "bad_utf8", entries |-> <<>>]
BadBibtex == [kind |-> "bad_bibtex", entries |-> <<>>]
Bib(es) == [kind |-> "bib", entries |-> es]

\* e["author_list"] = e.pop("author", [])
InjectAuthorList(e) ==
    [k \in (DOMAIN e \ {"author"}) \cup {"author_list"} |->
        IF k = "author_list"
        THEN (IF "author" \in DOMAIN e THEN e["author"] ELSE <<>>)
        ELSE e[k]]

\* ------------------------------------------------------------------------
\* State
\* ------------------------------------------------------------------------
VARIABLES
    uploaded_files,   \* st.file_uploader(...): the files, in upload order
    pc,               \* "start", "for_f", "for_entry", "end", "raised"
    fi,               \* position of `for f in uploaded_files`
    entries,          \* bib_db.entries of the file being converted
    ei,               \* position of `for entry in bib_db.entries`
    collection,       \* children of the modsCollection being built
    all_xml_strings,  \* one XML text per converted file
    combined_xml,     \* "\n".join(all_xml_strings)
    offered,          \* download_button and st.code have been given the output
    exc,              \* the exception that ended the script, if any
    clock             \* the reading datetime.utcnow() would return now

vars == <<uploaded_files, pc, fi, entries, ei, collection, all_xml_strings,
          combined_xml, offered, exc, clock>>

InitOn(uploads) ==
    /\ uploaded_files \in uploads
    /\ pc = "start"
    /\ fi = 0
    /\ entries = <<>>
    /\ ei = 0
    /\ collection = <<>>
    /\ all_xml_strings = <<>>
    /\ combined_xml = <<>>
    /\ offered = FALSE
    /\ exc = "none"
    /\ clock = 0

\* ------------------------------------------------------------------------
\* Actions
\* ------------------------------------------------------------------------
\* if uploaded_files: all_xml_strings = []
Start ==
    /\ pc = "start"
    /\ IF uploaded_files # <<>>
       THEN pc' = "for_f" /\ fi' = 1
       ELSE pc' = "end" /\ fi' = fi
    /\ UNCHANGED <<uploaded_files, entries, ei, collection, all_xml_strings,
                   combined_xml, offered, exc, clock>>

\* A faulty variant: a file that fails is passed over and the loop goes on
LoadIsolated ==
    /\ pc = "for_f"
    /\ fi <= Len(uploaded_files)
    /\ LET f == uploaded_files[fi]
       IN  IF f.kind = "bib"
           THEN /\ entries' = [k \in 1..Len(f.entries) |-> InjectAuthorList(f.entries[k])]
                /\ ei' = 1
                /\ collection' = <<>>
                /\ pc' = "for_entry"
                /\ fi' = fi
           ELSE /\ fi' = fi + 1
                /\ UNCHANGED <<pc, entries, ei, collection>>
    /\ UNCHANGED <<uploaded_files, exc, all_xml_strings, combined_xml, offered, clock>>

\* f.read().decode("utf-8"), bibtexparser.loads, and the author_list loop
Load ==
    /\ pc = "for_f"
    /\ fi <= Len(uploaded_files)
    /\ LET f == uploaded_files[fi]
       IN  IF f.kind = "bib"
           THEN /\ entries' = [k \in 1..Len(f.entries) |-> InjectAuthorList(f.entries[k])]
                /\ ei' = 1
                /\ collection' = <<>>
                /\ pc' = "for_entry"
                /\ exc' = exc
           ELSE /\ pc' = "raised"
                /\ exc' = (IF f.kind = "bad_utf8" THEN "UnicodeDecodeError"
                           ELSE "ParseException")
                /\ UNCHANGED <<entries, ei, collection>>
    /\ UNCHANGED <<uploaded_files, fi, all_xml_strings, combined_xml, offered, clock>>

\* A faulty variant: the converted entry is put in front of the collection
ConvertEntryInFront ==
    /\ pc = "for_entry"
    /\ ei <= Len(entries)
    /\ \E u \in 1..MaxUuid :
         LET r == entry_to_mods(entries[ei], clock, u)
         IN  IF r.raised
             THEN /\ pc' = "raised"
                  /\ exc' = "AttributeError"
                  /\ UNCHANGED <<collection, ei>>
             ELSE /\ collection' = <<r.mods>> \o collection
                  /\ ei' = ei + 1
                  /\ UNCHANGED <<pc, exc>>
    /\ UNCHANGED <<uploaded_files, fi, entries, all_xml_strings, combined_xml,
                   offered, clock>>

\* collection.append(entry_to_mods(entry))
ConvertEntry ==
    /\ pc = "for_entry"
    /\ ei <= Len(entries)
    /\ \E u \in 1..MaxUuid :
         LET r == entry_to_mods(entries[ei], clock, u)
         IN  IF r.raised
             THEN /\ pc' = "raised"
                  /\ exc' = "AttributeError"
                  /\ UNCHANGED <<collection, ei>>
             ELSE /\ collection' = Append(collection, r.mods)
                  /\ ei' = ei + 1
                  /\ UNCHANGED <<pc, exc>>
    /\ UNCHANGED <<uploaded_files, fi, entries, all_xml_strings, combined_xml,
                   offered, clock>>

\* return prettify(collection); all_xml_strings.append(xml_str).  The locals
\* of bibtex_to_mods (bib_db, collection) end with the call.
Serialize ==
    /\ pc = "for_entry"
    /\ ei > Len(entries)
    /\ all_xml_strings' =
         Append(all_xml_strings, prettify(Element("modsCollection", <<>>, collection)))
    /\ fi' = fi + 1
    /\ pc' = "for_f"
    /\ entries' = <<>>
    /\ ei' = 0
    /\ collection' = <<>>
    /\ UNCHANGED <<uploaded_files, combined_xml, offered, exc, clock>>

\* A faulty variant: the documents are joined with nothing between them
FinishNoSeparator ==
    /\ pc = "for_f"
    /\ fi > Len(uploaded_files)
    /\ combined_xml' = Flatten(all_xml_strings)
    /\ offered' = TRUE
    /\ pc' = "end"
    /\ UNCHANGED <<uploaded_files, fi, entries, ei, collection, all_xml_strings,
                   exc, clock>>

\* combined_xml = "\n".join(all_xml_strings); download_button; st.code
Finish ==
    /\ pc = "for_f"
    /\ fi > Len(uploaded_files)
    /\ combined_xml' = Join(<<NL>>, all_xml_strings)
    /\ offered' = TRUE
    /\ pc' = "end"
    /\ UNCHANGED <<uploaded_files, fi, entries, ei, collection, all_xml_strings,
                   exc, clock>>

\* Time passes while the script runs
Tick ==
    /\ pc \in {"start", "for_f", "for_entry"}
    /\ clock < MaxClock
    /\ clock' = clock + 1
    /\ UNCHANGED <<uploaded_files, pc, fi, entries, ei, collection, all_xml_strings,
                   combined_xml, offered, exc>>

Next == Start \/ Load \/ ConvertEntry \/ Serialize \/ Finish \/ Tick

\* ------------------------------------------------------------------------
\* Inputs: the entries and uploads the specifications start from
\* ------------------------------------------------------------------------
EmptyEntry == [k \in {} |-> <<>>]

\* An entry holding key k (with value v) when present, nothing otherwise
Field(present, k, v) == IF present THEN k :> v ELSE EmptyEntry

SeqsUpTo(S, n) == UNION {[1..m -> S] : m \in 0..n}

JaneDoe == Person(<<<<"J">>>>, <<<<"D">>>>)

\* Entries that hold or lack every group of the record
GroupKeys == {"title", "author", "language", "keywords", "abstract", "year",
              "journal", "status", "url"}

IdentifierKeys == {"doi", "isbn", "issn", "hdl", "isi"}

GroupEntry(S, ids) ==
    [k \in S \cup DOMAIN ids |->
        IF k \in DOMAIN ids THEN ids[k]
        ELSE IF k = "author" THEN <<JaneDoe>>
        ELSE <<"v">>]

IdValues(I, vals) == [I -> vals]

OrderEntries ==
    {GroupEntry(S, [k \in I |-> <<"7">>]) :
        S \in SUBSET GroupKeys, I \in {{}, IdentifierKeys}}
    \cup {GroupEntry(S, ids) :
            S \in {{}, GroupKeys},
            ids \in UNION {IdValues(I, {<<>>, <<"7">>}) : I \in SUBSET IdentifierKeys}}

\* Entries that vary the three sources of the host title
HostValues == {<<>>, <<" ">>, <<"x">>}

HostEntries ==
    {Field(j # <<"-">>, "journal", <<"J">> \o j)
     @@ Field(b # <<"-">>, "booktitle", <<"B">> \o b)
     @@ Field(p # <<"-">>, "publisher", <<"P">> \o p)
     @@ Field(y, "year", <<"1">>) :
        j \in {<<"-">>, <<"x">>}, b \in {<<"-">>, <<"x">>},
        p \in {<<"-">>, <<"x">>}, y \in BOOLEAN}
    \cup {Field(j # <<"-">>, "journal", j) @@ Field(b # <<"-">>, "booktitle", b)
          @@ Field(p # <<"-">>, "publisher", p) :
            j \in HostValues \cup {<<"-">>}, b \in HostValues \cup {<<"-">>},
            p \in HostValues \cup {<<"-">>}}

\* Entries that vary one plain field over absent, empty, blank and text
PlainKeys == {"title", "year", "url", "pages", "doi", "abstract", "status",
              "volume", "number", "language"}

EmitEntries ==
    {Field(TRUE, k, v) @@ Field(h, "journal", <<"J">>) :
        k \in PlainKeys, v \in {<<>>, <<" ">>, <<"a">>}, h \in BOOLEAN}
    \cup {EmptyEntry, Field(TRUE, "journal", <<"J">>)}

\* Entries that vary the page range
PageChars == {"1", "2", "-"}

PagesEntries ==
    {Field(TRUE, "pages", pg) @@ Field(TRUE, "journal", <<"J">>) :
        pg \in SeqsUpTo(PageChars, MaxPagesLen)}

\* Entries that vary the author list: structured persons and plain strings
Persons ==
    {Person(f, l) : f \in {<<>>, <<<<"J">>>>, <<<<"J">>, <<"Q">>>>},
                    l \in {<<<<"D">>>>, <<<<"v">>, <<"D">>>>}}
    \cup {Person(<<<<"J">>>>, <<>>)}

RawNames ==
    {RawName(<<"D", ",", " ", "J">>), RawName(<<"J", " ", "D">>), RawName(<<"D">>)}

AuthorEntries ==
    {Field(TRUE, "author", as) @@ Field(t, "title", <<"T">>) :
        as \in SeqsUpTo(Persons \cup RawNames, MaxAuthors), t \in BOOLEAN}
    \cup {EmptyEntry}

\* A few whole entries: for the collection and the upload loop
SmallEntries ==
    {EmptyEntry,
     Field(TRUE, "title", <<"T">>),
     Field(TRUE, "title", <<"T">>) @@ Field(TRUE, "author", <<JaneDoe>>),
     Field(TRUE, "author", <<RawName(<<"D">>)>>)}

OneEntryUploads(es) == {<<Bib(<<e>>)>> : e \in es}

FieldUploads ==
    OneEntryUploads(OrderEntries \cup HostEntries \cup EmitEntries \cup PagesEntries)

AuthorUploads == OneEntryUploads(AuthorEntries)

CollectionUploads == {<<Bib(es)>> : es \in SeqsUpTo(SmallEntries, MaxEntries)}

SmallFiles ==
    {BadUtf8, BadBibtex, Bib(<<>>),
     Bib(<<Field(TRUE, "title", <<"T">>)>>),
     Bib(<<Field(TRUE, "author", <<RawName(<<"D">>)>>)>>)}

FileUploads == SeqsUpTo(SmallFiles, MaxFiles)

\* ------------------------------------------------------------------------
\* Specifications
\* ------------------------------------------------------------------------
Init == InitOn(FileUploads)

Spec == Init /\ [][Next]_vars

InitCollection == InitOn(CollectionUploads)

SpecCollection == InitCollection /\ [][Next]_vars

InitFields == InitOn(FieldUploads)

SpecFields == InitFields /\ [][Next]_vars

InitAuthors == InitOn(AuthorUploads)

SpecAuthors == InitAuthors /\ [][Next]_vars

\* ------------------------------------------------------------------------
\* Reading the output
\* ------------------------------------------------------------------------
Kids(el, tag) == SelectSeq(el.children, LAMBDA c : c.tag = QName(tag))

HasKid(el, tag) == Kids(el, tag) # <<>>

\* The attribute `name` of an element ("" when it has none)
Attr(el, name) ==
    IF \E i \in 1..Len(el.attrib) : el.attrib[i][1] = name
    THEN el.attrib[CHOOSE i \in 1..Len(el.attrib) : el.attrib[i][1] = name][2]
    ELSE ""

\* Every element of a tree, the root included
RECURSIVE Descendants(_)
Descendants(el) ==
    {el} \cup UNION {Descendants(el.children[k]) : k \in 1..Len(el.children)}

\* The records of the file being converted, as the parser returned them
Source(k) == uploaded_files[fi].entries[k]

\* The <mods> elements built so far for the file being converted
Built == 1..Len(collection)

Blank(text) == Strip(text) = <<>>

Value(e, key) == IF key \in DOMAIN e THEN e[key] ELSE <<>>

\* ------------------------------------------------------------------------
\* C2: the top-level children of every emitted mods element appear in the
\* fixed order titleInfo, name*, language, subject*, identifier*, abstract,
\* originInfo, relatedItem, note, location, recordInfo, typeOfResource, and
\* its identifier nodes are exactly those of the identifier fields holding
\* a value, one node each, in the order doi, isbn, issn, hdl, isi.
\* ------------------------------------------------------------------------
Rank(tag) ==
    CASE tag = QName("titleInfo") -> 1
      [] tag = QName("name") -> 2
      [] tag = QName("language") -> 3
      [] tag = QName("subject") -> 4
      [] tag = QName("identifier") -> 5
      [] tag = QName("abstract") -> 6
      [] tag = QName("originInfo") -> 7
      [] tag = QName("relatedItem") -> 8
      [] tag = QName("note") -> 9
      [] tag = QName("location") -> 10
      [] tag = QName("recordInfo") -> 11
      [] tag = QName("typeOfResource") -> 12
      [] OTHER -> 0

Repeatable == {2, 4, 5}

InFixedOrder(mods) ==
    /\ \A i \in 1..Len(mods.children) : Rank(mods.children[i].tag) # 0
    /\ \A i, j \in 1..Len(mods.children) :
         i < j =>
           \/ Rank(mods.children[i].tag) < Rank(mods.children[j].tag)
           \/ /\ Rank(mods.children[i].tag) = Rank(mods.children[j].tag)
              /\ Rank(mods.children[i].tag) \in Repeatable

ClaimedIdentifierOrder == <<"doi", "isbn", "issn", "hdl", "isi">>

IdentifiersOf(e) ==
    SelectSeq(ClaimedIdentifierOrder, LAMBDA typ : Truthy(Value(e, typ)))

IdentifiersInOrder(mods, e) ==
    LET ids == Kids(mods, "identifier")
    IN  /\ Len(ids) = Len(IdentifiersOf(e))
        /\ \A i \in 1..Len(ids) :
             /\ Attr(ids[i], "type") = IdentifiersOf(e)[i]
             /\ ids[i].text = e[IdentifiersOf(e)[i]]

\* C2: in every emitted mods element the children keep the fixed group order
\* and the identifier nodes are one per identifier field holding a value, in
\* the order doi, isbn, issn, hdl, isi.
C2_FixedOrder ==
    \A k \in Built :
        /\ InFixedOrder(collection[k])
        /\ IdentifiersInOrder(collection[k], Source(k))

\* A converted record holding isbn, doi and issn, a title and a url
C2_Witness ==
    \E k \in Built :
        /\ {"isbn", "doi", "issn", "title", "url", "journal"} \subseteq DOMAIN Source(k)
        /\ Len(Kids(collection[k], "identifier")) >= 3
        /\ HasKid(collection[k], "relatedItem")

\* ------------------------------------------------------------------------
\* C6: the host title is the first non-empty value among journal,
\* booktitle, publisher; relatedItem[type=host] is emitted exactly when it
\* is non-empty, and then titleInfo/title holds it.
\* ------------------------------------------------------------------------
HostSources == <<"journal", "booktitle", "publisher">>

\* i is the first source holding a non-empty value
FirstHost(e, i) ==
    /\ Value(e, HostSources[i]) # <<>>
    /\ \A j \in 1..(i - 1) : Value(e, HostSources[j]) = <<>>

HostTitleIs(mods, title) ==
    /\ Len(Kids(mods, "relatedItem")) = 1
    /\ Attr(Kids(mods, "relatedItem")[1], "type") = "host"
    /\ Len(Kids(Kids(mods, "relatedItem")[1], "titleInfo")) = 1
    /\ LET ti == Kids(Kids(mods, "relatedItem")[1], "titleInfo")[1]
       IN  /\ Len(ti.children) = 1
           /\ ti.children[1].tag = QName("title")
           /\ ti.children[1].text = title

\* C6: the first non-empty of journal, booktitle, publisher is the title of
\* the one relatedItem[type=host]; with none non-empty there is no relatedItem.
C6_HostTitle ==
    \A k \in Built :
        /\ \A i \in 1..3 :
             FirstHost(Source(k), i)
               => HostTitleIs(collection[k], Source(k)[HostSources[i]])
        /\ (\A i \in 1..3 : Value(Source(k), HostSources[i]) = <<>>)
             => ~HasKid(collection[k], "relatedItem")

\* An empty journal falls through to the booktitle
C6_Witness ==
    \E k \in Built :
        /\ {"journal", "booktitle", "publisher"} \subseteq DOMAIN Source(k)
        /\ Source(k)["journal"] = <<>>
        /\ Source(k)["booktitle"] = <<"x">>
        /\ HostTitleIs(collection[k], <<"x">>)

\* ------------------------------------------------------------------------
\* C1: a node is emitted if and only if its source value is non-empty
\* after trimming: no emitted node is a text node with empty or blank text
\* nor an empty container, the plain fields title, year, url, abstract and
\* status have their node exactly when their value is not blank, and
\* typeOfResource is always emitted.
\* ------------------------------------------------------------------------
\* The node that carries the field `key` of the record
FieldNode(mods, key) ==
    CASE key = "title" -> Kids(mods, "titleInfo")
      [] key = "year" -> Kids(mods, "originInfo")
      [] key = "url" -> Kids(mods, "location")
      [] key = "abstract" -> Kids(mods, "abstract")
      [] key = "status" -> Kids(mods, "note")

NoEmptyNode(mods) ==
    \A el \in Descendants(mods) : el.children # <<>> \/ ~Blank(el.text)

Extents(mods) ==
    {el \in Descendants(mods) : el.tag = QName("extent")}

ClaimedStart(pages) == Split(ReplaceDashDash(pages), "-")[1]

ClaimedEnd(pages) ==
    LET parts == Split(ReplaceDashDash(pages), "-")
    IN  IF Len(parts) > 1 /\ parts[2] # <<>> THEN parts[2] ELSE parts[1]

TextOfKid(el, tag) == IF HasKid(el, tag) THEN Kids(el, tag)[1].text ELSE <<>>

\* C5: start is the leading part, end the first trailing part or else start,
\* and an extent with a start node has an end node.
C5_PageRange ==
    \A k \in Built :
        \A ext \in Extents(collection[k]) :
            /\ TextOfKid(ext, "start") = ClaimedStart(Source(k)["pages"])
            /\ TextOfKid(ext, "end") = ClaimedEnd(Source(k)["pages"])
            /\ HasKid(ext, "start") => HasKid(ext, "end")

\* ------------------------------------------------------------------------
\* C4: every author value, a structured person or a raw string, yields
\* one (given, family) pair and no error; a raw string with a comma gives
\* family = the text before the first comma and given = the rest, one
\* without gives family = the last whitespace-delimited token and given =
\* the tokens before it; the two parts are never both empty.
\* ------------------------------------------------------------------------
\* The entries of the current file whose conversion has been entered
Entered ==
    {k \in 1..Len(entries) : k < ei \/ (k = ei /\ pc = "raised")}

Tokens(text) == SelectSeq(Split(text, " "), LAMBDA w : w # <<>>)

HasComma(text) == \E i \in 1..Len(text) : text[i] = ","

ClaimedFamily(text) ==
    IF HasComma(text) THEN Strip(Split(text, ",")[1])
    ELSE IF Tokens(text) = <<>> THEN <<>>
    ELSE Tokens(text)[Len(Tokens(text))]

ClaimedGiven(text) ==
    IF HasComma(text)
    THEN Strip(SubSeq(text, Len(Split(text, ",")[1]) + 2, Len(text)))
    ELSE IF Tokens(text) = <<>> THEN <<>>
    ELSE Join(<<" ">>, SubSeq(Tokens(text), 1, Len(Tokens(text)) - 1))

\* C4: every author of an entry whose conversion was entered splits into a
\* (given, family) pair without an error, a raw string by the comma or
\* last-token rule, and the two parts are not both empty.
C4_EveryAuthorSplits ==
    \A k \in Entered :
        \A a \in 1..Len(AuthorList(entries[k])) :
            LET person == AuthorList(entries[k])[a]
                gf == split_name(person)
            IN  /\ ~gf.raised
                /\ gf.given # <<>> \/ gf.family # <<>>
                /\ person.kind = "raw" =>
                     /\ gf.given = ClaimedGiven(person.text)
                     /\ gf.family = ClaimedFamily(person.text)

\* ------------------------------------------------------------------------
\* C3: entry_to_mods emits one name[type=personal] node per author, the
\* k-th node built from the k-th author, each with the role block of two
\* roleTerms (code "aut", text "author"), and no namePart for an empty
\* given or family part.
\* ------------------------------------------------------------------------
NamePartIs(name, type, text) ==
    LET parts == SelectSeq(Kids(name, "namePart"), LAMBDA c : Attr(c, "type") = type)
    IN  IF text = <<>> THEN parts = <<>>
        ELSE Len(parts) = 1 /\ parts[1].text = text

RoleIsAuthor(name) ==
    /\ Len(Kids(name, "role")) = 1
    /\ LET terms == Kids(name, "role")[1].children
       IN  /\ Len(terms) = 2
           /\ terms[1].tag = QName("roleTerm") /\ terms[2].tag = QName("roleTerm")
           /\ Attr(terms[1], "type") = "code" /\ terms[1].text = <<"a", "u", "t">>
           /\ Attr(terms[1], "authority") = "marcrelator"
           /\ Attr(terms[2], "type") = "text"
           /\ terms[2].text = <<"a", "u", "t", "h", "o", "r">>

AuthorsOf(e) == IF "author" \in DOMAIN e THEN e["author"] ELSE <<>>

NameOf(person) ==
    IF person.kind = "person"
    THEN [given |-> Join(<<" ">>, person.first_names),
          family |-> Join(<<" ">>, person.last_names)]
    ELSE [given |-> ClaimedGiven(person.text), family |-> ClaimedFamily(person.text)]

NamesMatch(mods, authors) ==
    LET names == Kids(mods, "name")
    IN  /\ Len(names) = Len(authors)
        /\ \A i \in 1..Len(names) :
             /\ Attr(names[i], "type") = "personal"
             /\ NamePartIs(names[i], "given", NameOf(authors[i]).given)
             /\ NamePartIs(names[i], "family", NameOf(authors[i]).family)
             /\ RoleIsAuthor(names[i])

\* C3: every entry whose conversion was entered has emitted one name node
\* per author, the k-th from the k-th author, with the author role block.
C3_OneNamePerAuthor ==
    \A k \in Entered :
        /\ k <= Len(collection)
        /\ NamesMatch(collection[k], AuthorsOf(Source(k)))

\* ------------------------------------------------------------------------
\* C7: the record dates and the record identifier of two conversions
\* ------------------------------------------------------------------------
RecordInfoOf(mods) == Kids(mods, "recordInfo")[1]

Created(mods) == TextOfKid(RecordInfoOf(mods), "recordCreationDate")

Changed(mods) == TextOfKid(RecordInfoOf(mods), "recordChangeDate")

RecordId(mods) == TextOfKid(RecordInfoOf(mods), "recordIdentifier")

\* C7 (as stated): creation date = change date within a record, and two
\* conversions of the same input differ in recordIdentifier and both dates.
C7_ConversionsDiffer ==
    /\ \A k \in Built : Created(collection[k]) = Changed(collection[k])
    /\ \A i, j \in Built :
         (i < j /\ Source(i) = Source(j)) =>
            /\ RecordId(collection[i]) # RecordId(collection[j])
            /\ Created(collection[i]) # Created(collection[j])
            /\ Changed(collection[i]) # Changed(collection[j])

\* C7 (amended): within one record the creation date equals the change
\* date, both the text of one reading of the clock taken no later than now,
\* and the record holds one recordIdentifier; nothing makes two conversions
\* of the same input differ.
C7_OneClockReading ==
    \A k \in Built :
        /\ Len(Kids(collection[k], "recordInfo")) = 1
        /\ Created(collection[k]) = Changed(collection[k])
        /\ \E t \in 0..clock : Created(collection[k]) = Append(Digits(t), "Z")
        /\ Len(Kids(RecordInfoOf(collection[k]), "recordIdentifier")) = 1

\* Two conversions of the same input that carry the same dates
C7_Witness ==
    \E i, j \in Built :
        /\ i < j
        /\ Source(i) = Source(j)
        /\ Created(collection[i]) = Created(collection[j])
        /\ RecordId(collection[i]) # RecordId(collection[j])

\* ------------------------------------------------------------------------
\* C8: the modsCollection has one mods child per input record, the k-th
\* child being the conversion of the k-th record and of nothing else; the
\* serialized document holds as many mods elements as the file has
\* records, and none for a file without records.
\* ------------------------------------------------------------------------
IsConversionOf(mods, record) ==
    \E t \in 0..clock, u \in 1..MaxUuid :
        mods = entry_to_mods(InjectAuthorList(record), t, u).mods

\* The mods elements of a serialized document: the lines opening one
ModsCount(doc) ==
    Cardinality({i \in 1..Len(doc) :
        doc[i].tag = "mods" /\ doc[i].indent = 1 /\ doc[i].kind \in {"open", "empty"}})

EmptyCollectionDoc ==
    <<Line("decl", 0, "xml", <<<<"version", "1.0">>>>, <<>>), NL,
      Line("empty", 0, "modsCollection", <<<<"xmlns", MODS_NS>>>>, <<>>), NL>>

\* C8: one mods child per record, the k-th the conversion of the k-th record
\* only; a document holds as many mods as its file has records.
C8_OnePerRecord ==
    /\ pc = "for_entry" => Len(collection) = ei - 1
    /\ \A k \in Built : IsConversionOf(collection[k], Source(k))
    /\ \A f \in 1..Len(all_xml_strings) :
         /\ ModsCount(all_xml_strings[f]) = Len(uploaded_files[f].entries)
         /\ uploaded_files[f].entries = <<>> => all_xml_strings[f] = EmptyCollectionDoc

\* Two different records converted, in input order
C8_Witness ==
    /\ pc = "for_entry"
    /\ Len(collection) = 2
    /\ Source(1) # Source(2)
    /\ HasKid(collection[1], "titleInfo") # HasKid(collection[2], "titleInfo")

\* ------------------------------------------------------------------------
\* C9: the files are converted one at a time in upload order, a file's
\* document being complete before the next file is started, and the
\* combined output is the per-file documents in upload order with a single
\* newline between two documents: one document per file.
\* ------------------------------------------------------------------------
RECURSIVE Offset(_)
Offset(k) ==
    IF k = 1 THEN 0 ELSE Offset(k - 1) + Len(all_xml_strings[k - 1]) + 1

DeclCount(text) == Cardinality({i \in 1..Len(text) : text[i].kind = "decl"})

\* C9: documents exist exactly for the files before the one being converted,
\* and the offered text is these documents in upload order, one newline
\* between two of them.
C9_OneAtATime ==
    /\ pc \in {"for_f", "for_entry"} => Len(all_xml_strings) = fi - 1
    /\ \A k \in 1..Len(all_xml_strings) :
         /\ DeclCount(all_xml_strings[k]) = 1
         /\ ModsCount(all_xml_strings[k]) = Len(uploaded_files[k].entries)
    /\ offered =>
         LET n == Len(all_xml_strings)
         IN  /\ n = Len(uploaded_files)
             /\ Len(combined_xml) = Offset(n) + Len(all_xml_strings[n])
             /\ DeclCount(combined_xml) = n
             /\ \A k \in 1..n :
                  /\ SubSeq(combined_xml, Offset(k) + 1,
                            Offset(k) + Len(all_xml_strings[k])) = all_xml_strings[k]
                  /\ k < n =>
                       combined_xml[Offset(k) + Len(all_xml_strings[k]) + 1] = NL

\* Two files with different contents converted and offered
C9_Witness ==
    /\ offered
    /\ pc = "end"
    /\ Len(uploaded_files) = 2
    /\ ModsCount(all_xml_strings[1]) = 1
    /\ ModsCount(all_xml_strings[2]) = 0

\* ------------------------------------------------------------------------
\* C10: a file whose decoding or parsing fails ends the script with the
\* error: no XML is produced for it, no later file is converted, and no
\* combined output is offered, not even for the files converted before it.
\* ------------------------------------------------------------------------
Fails(f) == f.kind # "bib"

\* C10: after a failure nothing more runs, the failing file has no document,
\* no later file is loaded and nothing is offered.
C10_FailureStopsAll ==
    /\ pc = "raised" =>
         /\ exc # "none"
         /\ ~offered
         /\ combined_xml = <<>>
         /\ fi \in 1..Len(uploaded_files)
         /\ Len(all_xml_strings) = fi - 1
         /\ ~ENABLED Next
    /\ exc \in {"UnicodeDecodeError", "ParseException"} =>
         pc = "raised" /\ Fails(uploaded_files[fi])
    /\ \A k \in 1..Len(uploaded_files) :
         Fails(uploaded_files[k]) =>
            /\ ~offered
            /\ fi <= k
            /\ Len(all_xml_strings) < k

\* The second file fails to decode or parse after the first was converted
C10_Witness ==
    /\ pc = "raised"
    /\ exc \in {"UnicodeDecodeError", "ParseException"}
    /\ fi = 2
    /\ Len(all_xml_strings) = 1
    /\ ~offered

====
